---- MODULE Spec2Model ----
(***************************************************************************)
(* Model of upload_script.js: the one-shot bulk upload of companies.json   *)
(* into the Firestore collection "targetCompanies" through one write       *)
(* batch.  One behaviour is a sequence of runs of the script (each run a   *)
(* fresh process) against a store that persists between the runs.          *)
(***************************************************************************)
EXTENDS FiniteSets, Integers, Sequences, TLC

\* ------------------------------------------------------------------ bounds
\* Longest companies.json array explored.
MaxLen == 3
\* Number of times the script is run against the same store.
MaxRuns == 2

\* ------------------------------------------------------- values of the model
\* What `company.companyName` evaluates to when the object has no such field.
Undefined == "<undefined>"

\* Company names appearing in companies.json.
Names == {"Acme", "Globex"}

\* Values of the remaining (payload) field of a company object.
Roles == {"SWE", "PM"}

\* The objects JSON.parse can yield as elements of companies.json: with a
\* companyName, with an empty companyName, or without that field.
Companies ==
    [companyName : Names, role : Roles]
        \cup {[companyName |-> "", role |-> "SWE"], [role |-> "SWE"]}

\* Document ids of the collection; "Initech" is never a name of the input.
DocIds == {"Acme", "Globex", "Initech"}

\* A document written by somebody else before the first run: it has a field
\* (hq) that no company object of the input carries.
OldDoc(id) == [companyName |-> id, role |-> "QA", hq |-> "HYD"]

RECURSIVE SeqsUpTo(_, _)
SeqsUpTo(S, n) ==
    IF n = 0 THEN {<<>>}
    ELSE LET shorter == SeqsUpTo(S, n - 1)
         IN  shorter \cup {Append(s, x) : s \in {t \in shorter : Len(t) = n - 1}, x \in S}

VARIABLES
    companies,     \* the parsed companies.json (line 17), fixed for all runs
    store,         \* collection targetCompanies: document id -> document data
    pc,            \* position of the run inside the script
    idx,           \* forEach: index of the next element of companies
    batch,         \* the WriteBatch: staged set() operations, in order
    ack,           \* outcome of batch.commit(): "none", "ok" or "rejected"
    console,       \* lines written by console.log / console.error in this run
    promise,       \* promise returned by uploadCompanies()
    run,           \* number of the current run
    commits,       \* commit requests issued by this run
    mutations,     \* commits the store applied during this run
    storeAtStart,  \* the store when this run started
    okRuns,        \* runs whose commit the store applied
    firstOk        \* the store right after the first applied commit

vars == <<companies, store, pc, idx, batch, ack, console, promise, run,
          commits, mutations, storeAtStart, okRuns, firstOk>>

\* ------------------------------------------------------ the client library
\* company.companyName (line 26): undefined when the field is missing.
CompanyName(company) ==
    IF "companyName" \in DOMAIN company THEN company.companyName ELSE Undefined

\* CollectionReference.doc(path) rejects anything but a non-empty string.
ValidateAnyPath(path) == TRUE

ValidateResourcePath(path) == path # Undefined /\ path # ""

\* doc() called without the name: a generated id not yet in the collection.
DocAuto(name) ==
    IF DocIds \ DOMAIN store # {}
    THEN CHOOSE id \in DocIds \ DOMAIN store : TRUE
    ELSE name

\* db.collection('targetCompanies').doc(company.companyName): the name is
\* the document id, verbatim.
Doc(name) == name

\* A set() that merges into the existing document ({merge: true}).
SetMerge(docs, id, data) ==
    IF id \in DOMAIN docs
    THEN [d \in DOMAIN docs |->
            IF d = id
            THEN [f \in DOMAIN docs[id] \cup DOMAIN data |->
                    IF f \in DOMAIN data THEN data[f] ELSE docs[id][f]]
            ELSE docs[d]]
    ELSE [d \in DOMAIN docs \cup {id} |-> IF d = id THEN data ELSE docs[d]]

\* One staged set(docRef, data) applied: the document is created or fully
\* overwritten.
ApplySet(docs, id, data) ==
    [d \in DOMAIN docs \cup {id} |-> IF d = id THEN data ELSE docs[d]]

RECURSIVE ApplyFrom(_, _, _)
ApplyFrom(docs, ops, k) ==
    IF k > Len(ops) THEN docs
    ELSE ApplyFrom(ApplySet(docs, ops[k].id, ops[k].data), ops, k + 1)

RECURSIVE ApplyBackFrom(_, _, _)
ApplyBackFrom(docs, ops, k) ==
    IF k < 1 THEN docs
    ELSE ApplyBackFrom(ApplySet(docs, ops[k].id, ops[k].data), ops, k - 1)

\* The staged writes applied last to first.
ApplyWritesReversed(docs, ops) == ApplyBackFrom(docs, ops, Len(ops))

\* The collection replaced by the batch: documents not written are dropped.
ApplyWritesReplace(docs, ops) ==
    LET written == ApplyFrom(docs, ops, 1)
    IN  [d \in {ops[k].id : k \in 1..Len(ops)} |-> written[d]]

\* A committed batch: its writes applied in the order they were staged.
ApplyWrites(docs, ops) == ApplyFrom(docs, ops, 1)

\* docRef.set(company) instead of batch.set: written at once, not staged.
WriteThrough(docs, id, data) == ApplySet(docs, id, data)

\* batch.set(docRef, company) is local to the batch: the store is untouched.
StoreAfterStaging(docs, id, data) == docs

\* The catch block re-entering the commit.
RetryCommit == "staged"

\* After console.error the function returns.
AfterCatch == "done"

\* The number of distinct names instead of the number of records.
UniqueCount(cs) == Cardinality({CompanyName(cs[k]) : k \in 1..Len(cs)})

\* The number of documents of the collection instead of the records sent.
CollectionSize(cs) == Cardinality(DOMAIN store)

\* `${companies.length}` of the success message.
UploadedCount(cs) == Len(cs)

\* A loop that stops one element short of the end of the array.
LoopDoneEarly(i, cs) == i >= Len(cs)

\* companies.forEach has visited every element.
LoopDone(i, cs) == i > Len(cs)

\* ------------------------------------------------------------------- Init
\* Lines 1-17 have run: the client is initialised and companies.json parsed.
Init ==
    /\ companies \in SeqsUpTo(Companies, MaxLen)
    /\ \E present \in SUBSET DocIds : store = [d \in present |-> OldDoc(d)]
    /\ pc = "start"
    /\ idx = 1
    /\ batch = <<>>
    /\ ack = "none"
    /\ console = <<>>
    /\ promise = "pending"
    /\ run = 1
    /\ commits = 0
    /\ mutations = 0
    /\ storeAtStart = store
    /\ okRuns = 0
    /\ firstOk = store

\* ---------------------------------------------------------------- actions
\* Lines 20-22: the start message, then an empty batch.
Begin ==
    /\ pc = "start"
    /\ console' = Append(console, [stream |-> "log", text |-> "Starting company upload..."])
    /\ batch' = <<>>
    /\ idx' = 1
    /\ pc' = "build"
    /\ UNCHANGED <<companies, store, ack, promise, run, commits, mutations,
                   storeAtStart, okRuns, firstOk>>

\* Lines 24-28, one iteration of forEach on a company whose name doc() accepts.
Stage ==
    /\ pc = "build"
    /\ ~LoopDone(idx, companies)
    /\ LET company == companies[idx]
           name    == CompanyName(company)
       IN  /\ ValidateResourcePath(name)
           /\ batch' = Append(batch, [id |-> Doc(name), data |-> company])
           /\ store' = StoreAfterStaging(store, Doc(name), company)
    /\ idx' = idx + 1
    /\ UNCHANGED <<companies, pc, ack, console, promise, run, commits,
                   mutations, storeAtStart, okRuns, firstOk>>

\* Line 26 throwing: doc() refuses the name.  The throw is outside the try
\* block, so it leaves forEach and uploadCompanies: the promise is rejected.
StageThrows ==
    /\ pc = "build"
    /\ ~LoopDone(idx, companies)
    /\ ~ValidateResourcePath(CompanyName(companies[idx]))
    /\ promise' = "rejected"
    /\ pc' = "done"
    /\ UNCHANGED <<companies, store, idx, batch, ack, console, run, commits,
                   mutations, storeAtStart, okRuns, firstOk>>

\* forEach is over; the try block is entered.
BuildDone ==
    /\ pc = "build"
    /\ LoopDone(idx, companies)
    /\ pc' = "staged"
    /\ UNCHANGED <<companies, store, idx, batch, ack, console, promise, run,
                   commits, mutations, storeAtStart, okRuns, firstOk>>

\* Line 31: batch.commit() is called and awaited.
IssueCommit ==
    /\ pc = "staged"
    /\ commits' = commits + 1
    /\ ack' = "none"
    /\ pc' = "await"
    /\ UNCHANGED <<companies, store, idx, batch, console, promise, run,
                   mutations, storeAtStart, okRuns, firstOk>>

\* The store applies the whole batch and acknowledges it.
CommitApplied ==
    /\ pc = "await"
    /\ store' = ApplyWrites(store, batch)
    /\ mutations' = mutations + 1
    /\ okRuns' = okRuns + 1
    /\ firstOk' = IF okRuns = 0 THEN store' ELSE firstOk
    /\ ack' = "ok"
    /\ pc' = "acked"
    /\ UNCHANGED <<companies, idx, batch, console, promise, run, commits,
                   storeAtStart>>

\* The store rejects the whole batch (or is unreachable): nothing is applied.
CommitRejected ==
    /\ pc = "await"
    /\ ack' = "rejected"
    /\ pc' = "acked"
    /\ UNCHANGED <<companies, store, idx, batch, console, promise, run,
                   commits, mutations, storeAtStart, okRuns, firstOk>>

\* Line 32: the await returned; the success message with companies.length.
ReportSuccess ==
    /\ pc = "acked"
    /\ ack = "ok"
    /\ console' = Append(console, [stream |-> "log", text |-> "Successfully uploaded",
                                   count |-> UploadedCount(companies)])
    /\ promise' = "fulfilled"
    /\ pc' = "done"
    /\ UNCHANGED <<companies, store, idx, batch, ack, run, commits, mutations,
                   storeAtStart, okRuns, firstOk>>

\* Lines 33-35: the await threw; the error is logged and swallowed.
ReportFailure ==
    /\ pc = "acked"
    /\ ack = "rejected"
    /\ console' = Append(console, [stream |-> "error", text |-> "Error uploading companies:"])
    /\ promise' = "fulfilled"
    /\ pc' = AfterCatch
    /\ UNCHANGED <<companies, store, idx, batch, ack, run, commits, mutations,
                   storeAtStart, okRuns, firstOk>>

\* Line 38 again: the script is run once more, a fresh process on the same
\* companies.json and the same store.
Rerun ==
    /\ pc = "done"
    /\ run < MaxRuns
    /\ run' = run + 1
    /\ pc' = "start"
    /\ idx' = 1
    /\ batch' = <<>>
    /\ ack' = "none"
    /\ console' = <<>>
    /\ promise' = "pending"
    /\ commits' = 0
    /\ mutations' = 0
    /\ storeAtStart' = store
    /\ UNCHANGED <<companies, store, okRuns, firstOk>>

Next ==
    \/ Begin
    \/ Stage
    \/ StageThrows
    \/ BuildDone
    \/ IssueCommit
    \/ CommitApplied
    \/ CommitRejected
    \/ ReportSuccess
    \/ ReportFailure
    \/ Rerun

Spec == Init /\ [][Next]_vars

TypeOK ==
    /\ Len(companies) <= MaxLen
    /\ \A k \in 1..Len(companies) : companies[k] \in Companies
    /\ DOMAIN store \subseteq DocIds
    /\ pc \in {"start", "build", "staged", "await", "acked", "done"}
    /\ idx \in 1..(Len(companies) + 1)
    /\ ack \in {"none", "ok", "rejected"}
    /\ promise \in {"pending", "fulfilled", "rejected"}
    /\ run \in 1..MaxRuns
    /\ commits \in 0..1
    /\ mutations \in 0..1

\* ------------------------------------------------- vocabulary of the claims
Indices == 1..Len(companies)

\* A record without a usable identity: companyName missing or empty.
IsMalformed(company) ==
    \/ "companyName" \notin DOMAIN company
    \/ company.companyName = ""

HasMalformed == \E k \in Indices : IsMalformed(companies[k])

\* The identities of the input (defined when no record is malformed).
Identities == {companies[k].companyName : k \in Indices}

HasDuplicates ==
    \E j, k \in Indices : j < k /\ companies[j].companyName = companies[k].companyName

\* The position of the last record carrying the identity id.
LastIndexOf(id) ==
    CHOOSE k \in Indices :
        /\ companies[k].companyName = id
        /\ \A j \in Indices : companies[j].companyName = id => j <= k

Logged(text) == \E k \in 1..Len(console) : console[k].text = text

Succeeded == Logged("Successfully uploaded")

Failed == Logged("Error uploading companies:")

\* ------------------------------------------------------------------ claims
\* C1 - Atomicity: once the commit of a run has been rejected by the store,
\* the collection is, in every later state of the run, exactly what it was
\* when the run started: no document created, none modified.
C1_Atomicity == ack = "rejected" => store = storeAtStart

\* A rejected commit whose batch would have created one document and
\* overwritten another.
C1_Witness ==
    /\ ack = "rejected"
    /\ pc = "done"
    /\ \E j, k \in 1..Len(batch) :
          /\ batch[j].id \notin DOMAIN store
          /\ batch[k].id \in DOMAIN store
    /\ store = storeAtStart

\* C2 - Validation before network: when some record of the input has a
\* missing or empty companyName, no commit is ever issued, nothing is ever
\* reported as a success, the collection stays as it was, and the run ends
\* with its promise rejected by the error thrown for that record.
C2_ValidationBeforeNetwork ==
    HasMalformed =>
        /\ commits = 0
        /\ mutations = 0
        /\ ack = "none"
        /\ store = storeAtStart
        /\ ~Succeeded
        /\ (pc = "done" => promise = "rejected")

\* A run ended by a malformed record that came after a valid one, which had
\* already been staged.
C2_Witness ==
    /\ HasMalformed
    /\ pc = "done"
    /\ promise = "rejected"
    /\ Len(batch) >= 1
    /\ \E k \in Indices : ~IsMalformed(companies[k]) /\ k > Len(batch) + 1

\* C3 - Completeness on success: once the commit of a run was applied, every
\* identity of the input has a document, so the documents at the targeted
\* keys are as many as the unique identities, and each such document is
\* exactly a record of the input with that identity, with nothing kept of
\* the document's previous content.
C3_Completeness ==
    ack = "ok" =>
        /\ Cardinality(DOMAIN store \cap Identities) = Cardinality(Identities)
        /\ \A id \in Identities :
              /\ id \in DOMAIN store
              /\ \E k \in Indices :
                    companies[k].companyName = id /\ store[id] = companies[k]

\* A successful run over two identities, one overwriting an older document
\* and one creating a new one.
C3_Witness ==
    /\ ack = "ok"
    /\ pc = "done"
    /\ Cardinality(Identities) = 2
    /\ \E a, b \in Identities : a \in DOMAIN storeAtStart /\ b \notin DOMAIN storeAtStart

\* C4 as stated - Empty input: the run on an empty record set succeeds and
\* reports a count of 0, leaving every document as it was.
C4_EmptyAlwaysSucceeds ==
    (companies = <<>> /\ pc = "done") =>
        /\ Succeeded
        /\ \A k \in 1..Len(console) :
              console[k].text = "Successfully uploaded" => console[k].count = 0
        /\ store = storeAtStart

\* C4 amended - Empty input: the run on an empty record set never throws,
\* issues one commit that stages zero writes and changes no document, and
\* reports success with a count of 0 when the store acknowledges that
\* commit; it reports the failure when the store rejects it.
C4_EmptyInput ==
    companies = <<>> =>
        /\ batch = <<>>
        /\ store = storeAtStart
        /\ promise # "rejected"
        /\ \A k \in 1..Len(console) :
              console[k].text = "Successfully uploaded" => console[k].count = 0
        /\ (pc = "done" => /\ commits = 1
                           /\ Succeeded <=> ack = "ok"
                           /\ Failed <=> ack = "rejected")

\* An empty run, acknowledged, against a collection that holds documents.
C4_Witness ==
    /\ companies = <<>>
    /\ pc = "done"
    /\ Succeeded
    /\ DOMAIN store # {}

\* C5 - Frame: after an applied commit, every document id that is not an
\* identity of the input is present exactly if it was present when the run
\* started, with the same content.
C5_Frame ==
    ack = "ok" =>
        \A d \in (DOMAIN store \cup DOMAIN storeAtStart) \ Identities :
            /\ d \in DOMAIN store
            /\ d \in DOMAIN storeAtStart
            /\ store[d] = storeAtStart[d]

\* A successful non-empty run beside a document that is no target of it.
C5_Witness ==
    /\ ack = "ok"
    /\ pc = "done"
    /\ Identities # {}
    /\ store # storeAtStart
    /\ DOMAIN storeAtStart \ Identities # {}

\* C6 - Idempotence: with the record set unchanged, the collection after
\* any later applied commit equals the collection after the first one.
C6_Idempotence == okRuns >= 1 => store = firstOk

\* A second successful run of an input of two or more records, leaving the
\* collection as the first left it.
C6_Witness ==
    /\ okRuns = 2
    /\ ack = "ok"
    /\ pc = "done"
    /\ Len(companies) >= 2
    /\ store = firstOk

\* C7 - Reporting: a success line carries the length of the input and is
\* written only after an acknowledged commit; a rejected commit ends in an
\* error line and never in a success line; a run never writes both.
C7_Report ==
    /\ \A k \in 1..Len(console) :
          console[k].text = "Successfully uploaded" =>
              /\ console[k].count = Len(companies)
              /\ ack = "ok"
    /\ Failed => ack = "rejected"
    /\ ~(Succeeded /\ Failed)
    /\ (pc = "done" /\ ack = "rejected") => (Failed /\ ~Succeeded)
    /\ (pc = "done" /\ ack = "ok") => Succeeded

\* A success report for an input whose length differs from its number of
\* identities.
C7_Witness ==
    /\ Succeeded
    /\ ~HasMalformed
    /\ HasDuplicates
    /\ console[Len(console)].count = Len(companies)
    /\ console[Len(console)].count > Cardinality(Identities)

\* C8 - One commit per run: a run issues at most one commit; a run that
\* reported success had exactly one commit, applied once; a run that
\* reported a failure or threw had no commit applied, and the failed commit
\* was not issued again.
C8_SingleCommit ==
    /\ commits <= 1
    /\ mutations <= commits
    /\ Succeeded => (commits = 1 /\ mutations = 1)
    /\ Failed => (commits = 1 /\ mutations = 0)
    /\ promise = "rejected" => (commits = 0 /\ mutations = 0)

\* A run finished after its only commit was rejected.
C8_Witness ==
    /\ pc = "done"
    /\ Failed
    /\ commits = 1
    /\ mutations = 0
    /\ Len(batch) >= 1

\* C9 - Order load, build, commit, report: a commit is issued only with one
\* write per record staged, in input order, each addressed by the record's
\* companyName; until the commit is issued the collection is untouched; a
\* result line is written only once the commit's outcome is known.
C9_Order ==
    /\ commits > 0 =>
          /\ Len(batch) = Len(companies)
          /\ \A k \in Indices :
                batch[k] = [id |-> companies[k].companyName, data |-> companies[k]]
    /\ commits = 0 => (store = storeAtStart /\ ack = "none")
    /\ pc \in {"start", "build", "staged", "await"} => ~(Succeeded \/ Failed)
    /\ (Succeeded \/ Failed) => ack # "none"

\* A commit in flight carrying the whole input of two or more records.
C9_Witness ==
    /\ pc = "await"
    /\ commits = 1
    /\ Len(batch) >= 2
    /\ Len(batch) = Len(companies)
    /\ ack = "none"

\* C10 - Duplicates: an input with two records of one identity is not
\* refused: the run never throws, its commit carries every record, the
\* outcome reported is the commit's, and after the applied commit each
\* document is the record latest in input order among those of its identity.
C10_LastDuplicateWins ==
    (~HasMalformed /\ HasDuplicates) =>
        /\ promise # "rejected"
        /\ commits > 0 => Len(batch) = Len(companies)
        /\ (pc = "done" /\ ack = "ok") => (Succeeded /\ promise = "fulfilled")
        /\ ack = "ok" =>
              \A id \in Identities : store[id] = companies[LastIndexOf(id)]

\* A successful run whose two duplicates carry different payloads.
C10_Witness ==
    /\ ~HasMalformed
    /\ pc = "done"
    /\ Succeeded
    /\ \E j, k \in Indices :
          /\ j < k
          /\ companies[j].companyName = companies[k].companyName
          /\ companies[j] # companies[k]
          /\ store[companies[k].companyName] = companies[k]
====
